---- MODULE Spec2Model ----
(***************************************************************************)
(* The layout generation pipeline of the presentation_maker app:           *)
(*   canvarequest (views.py) -> create_canva_functions (controllers.py)    *)
(*     -> create_steps -> handle_rag -> agent.invoke -> fence stripping    *)
(*     and json.loads -> replace_images (core/utils.py).                   *)
(*                                                                         *)
(* Python values are tagged records [t, v]:                                *)
(*   str  : v is the sequence of its characters (one-character strings;    *)
(*          a URL is one opaque atom, it holds no character the code       *)
(*          looks at);  BQ is the backtick character;                      *)
(*   int  : v is the number;   bool : v is the truth value;                *)
(*   None : v is <<>>;                                                     *)
(*   list : v is the sequence of the items;                                *)
(*   dict : v is the sequence of [k, v] pairs in insertion order, keys     *)
(*          (character sequences) unique.                                  *)
(* Positions in a text are 1-based here; Python's are 0-based.             *)
(***************************************************************************)
EXTENDS Integers, Sequences, FiniteSets, TLC

BQ == "BQ"

PyStr(chars) == [t |-> "str", v |-> chars]
PyInt(n) == [t |-> "int", v |-> n]
PyBool(b) == [t |-> "bool", v |-> b]
PyNone == [t |-> "None", v |-> <<>>]
PyList(items) == [t |-> "list", v |-> items]
PyDict(pairs) == [t |-> "dict", v |-> pairs]

Range(s) == {s[i] : i \in DOMAIN s}

(***************************************************************************)
(* str operations                                                          *)
(***************************************************************************)
\* sub in s, for two str
str_contains(s, sub) ==
    \E i \in 1..(Len(s) - Len(sub) + 1) : SubSeq(s, i, i + Len(sub) - 1) = sub

StartsWith(s, old) == Len(old) <= Len(s) /\ SubSeq(s, 1, Len(old)) = old

\* s.replace(old, new): the non-overlapping occurrences, left to right
RECURSIVE str_replace(_, _, _)
str_replace(s, old, new) ==
    IF s = <<>> THEN <<>>
    ELSE IF StartsWith(s, old)
         THEN new \o str_replace(SubSeq(s, Len(old) + 1, Len(s)), old, new)
         ELSE <<Head(s)>> \o str_replace(Tail(s), old, new)

py_whitespace == {" ", "\n", "\t", "\r"}

RECURSIVE lstrip(_)
lstrip(s) == IF s # <<>> /\ Head(s) \in py_whitespace THEN lstrip(Tail(s)) ELSE s

RECURSIVE rstrip(_)
rstrip(s) ==
    IF s # <<>> /\ s[Len(s)] \in py_whitespace
    THEN rstrip(SubSeq(s, 1, Len(s) - 1)) ELSE s

\* s.strip()
str_strip(s) == rstrip(lstrip(s))

RECURSIVE str_join(_, _)
\* sep.join(parts)
str_join(sep, parts) ==
    IF parts = <<>> THEN <<>>
    ELSE IF Len(parts) = 1 THEN parts[1]
    ELSE parts[1] \o sep \o str_join(sep, Tail(parts))

(***************************************************************************)
(* dict operations                                                         *)
(***************************************************************************)
dict_keys(pairs) == {pairs[i].k : i \in DOMAIN pairs}

dict_get(pairs, key) ==
    LET i == CHOOSE j \in DOMAIN pairs : pairs[j].k = key IN pairs[i].v

\* d[key] = value: an existing key keeps its place, a new one is appended
dict_set(pairs, key, value) ==
    IF key \in dict_keys(pairs)
    THEN [i \in DOMAIN pairs |->
            IF pairs[i].k = key THEN [k |-> key, v |-> value] ELSE pairs[i]]
    ELSE Append(pairs, [k |-> key, v |-> value])

RECURSIVE dict_from(_, _)
\* dict(pairs): a repeated key keeps its first place and its last value
dict_from(pairs, acc) ==
    IF pairs = <<>> THEN acc
    ELSE dict_from(Tail(pairs), dict_set(acc, Head(pairs).k, Head(pairs).v))

(***************************************************************************)
(* float: the exact fraction [n, d] in lowest terms with d > 0.  Each      *)
(* operation is the exact one, where Python rounds its result to the       *)
(* nearest double (a rounding that keeps the order of the results).        *)
(***************************************************************************)
PyFloat(q) == [t |-> "float", v |-> q]

Abs(n) == IF n < 0 THEN -n ELSE n

RECURSIVE GCD(_, _)
GCD(a, b) == IF b = 0 THEN a ELSE GCD(b, a % b)

Q(n, d) ==
    LET g == GCD(Abs(n), Abs(d))
        s == IF d < 0 THEN -1 ELSE 1
    IN  [n |-> (s * n) \div g, d |-> (s * d) \div g]

float_mul(a, b) == Q(a.n * b.n, a.d * b.d)
float_div(a, b) == Q(a.n * b.d, a.d * b.n)
float_add(a, b) == Q(a.n * b.d + b.n * a.d, a.d * b.d)
float_le(a, b) == a.n * b.d <= b.n * a.d

(***************************************************************************)
(* json.loads, as json.decoder and json.scanner compute it.  A result is   *)
(* [ok |-> TRUE, val, end] (end: the position after the value) or          *)
(* [ok |-> FALSE, msg, pos] (the JSONDecodeError).  The texts drawn below  *)
(* hold no exponent, no \u escape and none of NaN/Infinity.                *)
(***************************************************************************)
Ok(val, end) == [ok |-> TRUE, val |-> val, end |-> end]
Err(msg, pos) == [ok |-> FALSE, msg |-> msg, pos |-> pos]

WHITESPACE == {" ", "\t", "\n", "\r"}
Digits == <<"0", "1", "2", "3", "4", "5", "6", "7", "8", "9">>
DigitVal(c) == (CHOOSE i \in DOMAIN Digits : Digits[i] = c) - 1

\* s[i:i+1]
At(s, i) == IF i >= 1 /\ i <= Len(s) THEN s[i] ELSE ""

\* s[i:i+n] == word
Looking(s, i, word) ==
    i + Len(word) - 1 <= Len(s) /\ SubSeq(s, i, i + Len(word) - 1) = word

\* the element of a one-element set: Only({e : x \in {v}}) is e with the
\* local variable x assigned v, v computed once
Only(S) == CHOOSE y \in S : TRUE

RECURSIVE WHITESPACE_end(_, _)
\* WHITESPACE.match(s, i).end()
WHITESPACE_end(s, i) ==
    IF At(s, i) \in WHITESPACE THEN WHITESPACE_end(s, i + 1) ELSE i

BACKSLASH(c) ==
    CASE c = "\"" -> "\""
      [] c = "\\" -> "\\"
      [] c = "/" -> "/"
      [] c = "n" -> "\n"
      [] c = "r" -> "\r"
      [] c = "t" -> "\t"
      [] OTHER -> ""

RECURSIVE scanstring(_, _, _, _)
\* py_scanstring(s, end, strict=True); begin is the opening quote
scanstring(s, end, begin, chunks) ==
    IF end > Len(s) THEN Err("Unterminated string starting at", begin)
    ELSE IF s[end] = "\"" THEN Ok(PyStr(chunks), end + 1)
    ELSE IF s[end] = "\\"
         THEN IF end + 1 > Len(s)
              THEN Err("Unterminated string starting at", begin)
              ELSE IF BACKSLASH(s[end + 1]) = ""
                   THEN Err("Invalid \\escape", end)
                   ELSE scanstring(s, end + 2, begin,
                                   Append(chunks, BACKSLASH(s[end + 1])))
    ELSE IF s[end] \in {"\n", "\t", "\r"}
         THEN Err("Invalid control character at", end)
    ELSE scanstring(s, end + 1, begin, Append(chunks, s[end]))

RECURSIVE match_number(_, _, _)
\* NUMBER_RE: 0, or a digit run that does not start with 0
match_number(s, end, n) ==
    IF At(s, end) \in Range(Digits)
    THEN match_number(s, end + 1, 10 * n + DigitVal(s[end]))
    ELSE Ok(PyInt(n), end)

RECURSIVE match_frac(_, _, _, _)
\* the digits of the fraction part: n / d so far
match_frac(s, end, n, d) ==
    IF At(s, end) \in Range(Digits)
    THEN match_frac(s, end + 1, 10 * n + DigitVal(s[end]), 10 * d)
    ELSE Ok(PyFloat(Q(n, d)), end)

\* NUMBER_RE.match(s, idx): -?(0|[1-9]\d*)(\.\d+)?, an int without the
\* fraction part and a float with it
scan_number(s, idx) ==
    LET sign == IF At(s, idx) = "-" THEN -1 ELSE 1
        i0 == IF sign = -1 THEN idx + 1 ELSE idx
        integer == IF At(s, i0) = "0" THEN Ok(PyInt(0), i0 + 1)
                   ELSE match_number(s, i0, 0)
    IN  IF At(s, i0) \notin Range(Digits) THEN Err("Expecting value", idx)
        ELSE IF At(s, integer.end) = "." /\ At(s, integer.end + 1) \in Range(Digits)
        THEN LET f == match_frac(s, integer.end + 1, integer.val.v, 1)
             IN  Ok(PyFloat(Q(sign * f.val.v.n, f.val.v.d)), f.end)
        ELSE Ok(PyInt(sign * integer.val.v), integer.end)

RECURSIVE scan_once(_, _)
RECURSIVE JSONArray(_, _)
RECURSIVE JSONArray_loop(_, _, _)
RECURSIVE JSONObject(_, _)
RECURSIVE JSONObject_loop(_, _, _)
RECURSIVE JSONObject_value(_, _, _, _)
RECURSIVE JSONObject_next(_, _, _)

\* py_make_scanner._scan_once; StopIteration(idx) becomes, in every caller,
\* JSONDecodeError("Expecting value", s, idx)
scan_once(s, idx) ==
    IF idx > Len(s) THEN Err("Expecting value", idx)
    ELSE CASE s[idx] = "\"" -> scanstring(s, idx + 1, idx, <<>>)
           [] s[idx] = "{" -> JSONObject(s, idx + 1)
           [] s[idx] = "[" -> JSONArray(s, idx + 1)
           [] Looking(s, idx, <<"n", "u", "l", "l">>) -> Ok(PyNone, idx + 4)
           [] Looking(s, idx, <<"t", "r", "u", "e">>) -> Ok(PyBool(TRUE), idx + 4)
           [] Looking(s, idx, <<"f", "a", "l", "s", "e">>) ->
                    Ok(PyBool(FALSE), idx + 5)
           [] s[idx] = "-" \/ s[idx] \in Range(Digits) -> scan_number(s, idx)
           [] OTHER -> Err("Expecting value", idx)

JSONArray(s, end) ==
    LET e1 == IF At(s, end) \in WHITESPACE
              THEN WHITESPACE_end(s, end + 1) ELSE end
    IN  IF At(s, e1) = "]" THEN Ok(PyList(<<>>), e1 + 1)
        ELSE JSONArray_loop(s, e1, <<>>)

JSONArray_loop(s, end, values) ==
    Only({ IF ~r.ok THEN r
           ELSE Only({ IF At(s, e1) = "]"
                       THEN Ok(PyList(Append(values, r.val)), e1 + 1)
                       ELSE IF At(s, e1) # ","
                       THEN Err("Expecting ',' delimiter", e1)
                       ELSE JSONArray_loop(s, WHITESPACE_end(s, e1 + 1),
                                           Append(values, r.val))
                       : e1 \in {WHITESPACE_end(s, r.end)} })
           : r \in {scan_once(s, end)} })

JSONObject(s, end) ==
    LET e1 == WHITESPACE_end(s, end)
        nextchar == At(s, e1)
    IN  IF nextchar = "}" THEN Ok(PyDict(<<>>), e1 + 1)
        ELSE IF nextchar # "\""
             THEN Err("Expecting property name enclosed in double quotes", e1)
             ELSE JSONObject_loop(s, e1 + 1, <<>>)

\* after "key": value, with ps the pairs so far and e3 the end of the
\* whitespace behind the value
JSONObject_next(s, ps, e3) ==
    IF At(s, e3) = "}" THEN Ok(PyDict(dict_from(ps, <<>>)), e3 + 1)
    ELSE IF At(s, e3) # "," THEN Err("Expecting ',' delimiter", e3)
    ELSE Only({ IF At(s, e5) # "\""
                THEN Err("Expecting property name enclosed in double quotes", e5)
                ELSE JSONObject_loop(s, e5 + 1, ps)
                : e5 \in {WHITESPACE_end(s, e3 + 1)} })

\* the value behind "key" and the colon at e1
JSONObject_value(s, key, e1, pairs) ==
    IF At(s, e1) # ":" THEN Err("Expecting ':' delimiter", e1)
    ELSE Only({ IF ~r.ok THEN r
                ELSE Only({ JSONObject_next(s, ps, e3)
                            : ps \in {Append(pairs, [k |-> key.val.v, v |-> r.val])},
                              e3 \in {WHITESPACE_end(s, r.end)} })
                : r \in {scan_once(s, WHITESPACE_end(s, e1 + 1))} })

JSONObject_loop(s, end, pairs) ==
    Only({ IF ~key.ok THEN key
           ELSE Only({ JSONObject_value(s, key, e1, pairs)
                       : e1 \in {WHITESPACE_end(s, key.end)} })
           : key \in {scanstring(s, end, end - 1, <<>>)} })

\* JSONDecoder.decode
json_loads(s) ==
    Only({ IF ~r.ok THEN r
           ELSE IF WHITESPACE_end(s, r.end) # Len(s) + 1
           THEN Err("Extra data", WHITESPACE_end(s, r.end)) ELSE r
           : r \in {scan_once(s, WHITESPACE_end(s, 1))} })

(***************************************************************************)
(* json.dumps(obj, indent=2)                                               *)
(***************************************************************************)
RECURSIVE int_str(_)
int_str(n) ==
    IF n < 10 THEN <<Digits[n + 1]>> ELSE int_str(n \div 10) \o <<Digits[(n % 10) + 1]>>

RECURSIVE spaces(_)
spaces(n) == IF n = 0 THEN <<>> ELSE <<" ">> \o spaces(n - 1)

RECURSIVE encode_chars(_)
\* py_encode_basestring_ascii, for the characters of the model
encode_chars(chars) ==
    IF chars = <<>> THEN <<>>
    ELSE (CASE Head(chars) = "\"" -> <<"\\", "\"">>
            [] Head(chars) = "\\" -> <<"\\", "\\">>
            [] Head(chars) = "\n" -> <<"\\", "n">>
            [] Head(chars) = "\r" -> <<"\\", "r">>
            [] Head(chars) = "\t" -> <<"\\", "t">>
            [] OTHER -> <<Head(chars)>>) \o encode_chars(Tail(chars))

RECURSIVE json_encode(_, _)
\* _make_iterencode with indent=2: level is the current indent level
json_encode(o, level) ==
    LET newline(l) == <<"\n">> \o spaces(2 * l)
        sep(l) == <<",">> \o newline(l)
        key_text(k) == <<"\"">> \o encode_chars(k) \o <<"\"", ":", " ">>
    IN  CASE o.t = "str" -> <<"\"">> \o encode_chars(o.v) \o <<"\"">>
          [] o.t = "int" -> int_str(o.v)
          [] o.t = "bool" -> IF o.v THEN <<"t", "r", "u", "e">>
                                    ELSE <<"f", "a", "l", "s", "e">>
          [] o.t = "None" -> <<"n", "u", "l", "l">>
          [] o.t = "list" ->
                IF o.v = <<>> THEN <<"[", "]">>
                ELSE <<"[">> \o newline(level + 1)
                     \o str_join(sep(level + 1),
                                 [i \in DOMAIN o.v |-> json_encode(o.v[i], level + 1)])
                     \o newline(level) \o <<"]">>
          [] o.t = "dict" ->
                IF o.v = <<>> THEN <<"{", "}">>
                ELSE <<"{">> \o newline(level + 1)
                     \o str_join(sep(level + 1),
                                 [i \in DOMAIN o.v |->
                                    key_text(o.v[i].k)
                                    \o json_encode(o.v[i].v, level + 1)])
                     \o newline(level) \o <<"}">>

json_dumps(obj) == json_encode(obj, 0)

(***************************************************************************)
(* The dynamic-typing cases of the Python operations the code applies.     *)
(* An evaluation either returns a value or raises an exception type.       *)
(***************************************************************************)
Ret(val) == [raised |-> FALSE, val |-> val, type |-> ""]
Raise(type) == [raised |-> TRUE, val |-> PyNone, type |-> type]

\* for item in o: the items in order, or TypeError
py_iter(o) ==
    CASE o.t = "list" -> [ok |-> TRUE, items |-> o.v]
      [] o.t = "dict" -> [ok |-> TRUE, items |-> [i \in DOMAIN o.v |-> PyStr(o.v[i].k)]]
      [] o.t = "str" -> [ok |-> TRUE, items |-> [i \in DOMAIN o.v |-> PyStr(<<o.v[i]>>)]]
      [] OTHER -> [ok |-> FALSE, items |-> <<>>]

\* key in o, for a str key: "T", "F" or "TypeError"
py_in(key, o) ==
    CASE o.t = "dict" -> IF key.v \in dict_keys(o.v) THEN "T" ELSE "F"
      [] o.t = "list" -> IF \E i \in DOMAIN o.v : o.v[i] = key THEN "T" ELSE "F"
      [] o.t = "str" -> IF str_contains(o.v, key.v) THEN "T" ELSE "F"
      [] OTHER -> "TypeError"

\* o[key], for a str or an int key
py_getitem(o, key) ==
    CASE o.t = "dict" ->
            IF key.t = "str" /\ key.v \in dict_keys(o.v)
            THEN Ret(dict_get(o.v, key.v)) ELSE Raise("KeyError")
      [] o.t = "list" ->
            IF key.t # "int" THEN Raise("TypeError")
            ELSE IF key.v + 1 \in DOMAIN o.v THEN Ret(o.v[key.v + 1])
            ELSE Raise("IndexError")
      [] o.t = "str" ->
            IF key.t # "int" THEN Raise("TypeError")
            ELSE IF key.v + 1 \in DOMAIN o.v THEN Ret(PyStr(<<o.v[key.v + 1]>>))
            ELSE Raise("IndexError")
      [] OTHER -> Raise("TypeError")

\* bool(o)
py_truth(o) ==
    CASE o.t \in {"list", "dict", "str"} -> o.v # <<>>
      [] o.t = "int" -> o.v # 0
      [] o.t = "bool" -> o.v
      [] OTHER -> FALSE

K_ref == <<"r", "e", "f">>
K_type == <<"t", "y", "p", "e">>
K_width == <<"w", "i", "d", "t", "h">>
K_photos == <<"p", "h", "o", "t", "o", "s">>
K_src == <<"s", "r", "c">>
K_medium == <<"m", "e", "d", "i", "u", "m">>
S_sun == <<"s", "u", "n">>
S_sea == <<"s", "e", "a">>
S_text == <<"t", "e", "x", "t">>
S_image == <<"i", "m", "a", "g", "e">>

(***************************************************************************)
(* core/utils.py: search_pexels_image                                      *)
(***************************************************************************)
placeholder_url == PyStr(<<"https://i.postimg.cc/jSYRBQWR/image-not-found.png">>)

\* What the Pexels request of one call does: error is a RequestException
\* (requests.get failing or timing out, raise_for_status on an error status,
\* response.json() on a body that is not JSON); otherwise json is the body
\* response.json() returns.
Photo(url) == PyDict(<<[k |-> K_src, v |-> PyDict(<<[k |-> K_medium, v |-> url]>>)]>>)
Photos(items) == PyDict(<<[k |-> K_photos, v |-> PyList(items)]>>)
Url1 == PyStr(<<"https://images.pexels.com/photos/1/medium.jpg">>)
Url2 == PyStr(<<"https://images.pexels.com/photos/2/medium.jpg">>)

PexelsBodies ==
    { Photos(<<Photo(Url1)>>),                    \* a first result
      Photos(<<Photo(Url2), Photo(Url1)>>),       \* two results
      Photos(<<>>),                               \* empty result set
      PyDict(<<>>),                               \* no photos key
      Photos(<<PyDict(<<>>)>>),                   \* a photo without src
      Photos(<<PyDict(<<[k |-> K_src, v |-> PyDict(<<>>)]>>)>>),  \* src without medium
      Photos(<<PyNone>>),                         \* a photo that is null
      PyList(<<>>) }                              \* a body that is no object

PexelsReplies ==
    {[error |-> TRUE, json |-> PyNone]}
    \cup {[error |-> FALSE, json |-> b] : b \in PexelsBodies}

NoReply == [error |-> FALSE, json |-> PyNone]

\* photos[0]['src']['medium'] of a reply, when each step is there
first_result(reply) ==
    LET photos == py_getitem(reply.json, PyStr(K_photos))
        p0 == IF photos.raised THEN photos ELSE py_getitem(photos.val, PyInt(0))
        src == IF p0.raised THEN p0 ELSE py_getitem(p0.val, PyStr(K_src))
    IN  IF src.raised THEN src ELSE py_getitem(src.val, PyStr(K_medium))

search_pexels_image(query, api_key, reply) ==
    IF api_key = "" THEN Ret(placeholder_url)
    ELSE IF reply.error THEN Ret(placeholder_url)
    ELSE IF reply.json.t # "dict" THEN Raise("AttributeError")
    ELSE LET photos == IF K_photos \in dict_keys(reply.json.v)
                       THEN dict_get(reply.json.v, K_photos) ELSE PyList(<<>>)
         IN  IF ~py_truth(photos) THEN Ret(placeholder_url)
             ELSE LET url == first_result(reply) IN
                  IF ~url.raised THEN url
                  ELSE IF url.type \in {"KeyError", "IndexError"}
                       THEN Ret(placeholder_url)
                       ELSE url

\* the timeout argument an external call is made with, PyNone when it is
\* made without one: requests.get(..., timeout=10) in search_pexels_image;
\* client.beta.chat.completions.parse (create_steps), the vector store's
\* construction and similarity_search (handle_rag) and ChatOpenAI with
\* agent.invoke are called without a timeout argument
call_timeout(fn) == IF fn = "search_pexels_image" THEN PyInt(10) ELSE PyNone

(***************************************************************************)
(* core/utils.py: replace_images, one loop iteration at a time             *)
(***************************************************************************)
\* item["ref"] = url, every other key dropped
replace_ref_only(item, url) == PyDict(<<[k |-> K_ref, v |-> url]>>)

\* item["ref"] = url
replace_ref(item, url) == PyDict(dict_set(item.v, K_ref, url))

\* old_ref read from the type key
old_ref_type(item) == py_getitem(item, PyStr(K_type))

\* old_ref = item["ref"]
old_ref(item) == py_getitem(item, PyStr(K_ref))

\* "ref" in item
has_ref(item) == py_in(PyStr(K_ref), item)

(***************************************************************************)
(* The final messages the agent is drawn from: JSON texts of every shape   *)
(* the code tells apart, bare and wrapped in each form of code fence.      *)
(***************************************************************************)
Bodies ==
    LET
        \* [{"ref":"sun"}]
        Body_one_ref ==
            <<"[", "{", "\"", "r", "e", "f", "\"", ":", "\"", "s", "u", "n", "\"", "}", "]">>
        \* [{"type":"text"},{"ref":"sea","width":5}]
        Body_two_elems ==
            <<"[", "{", "\"", "t", "y", "p", "e", "\"", ":", "\"", "t", "e", "x", "t", "\"",
              "}", ",", "{", "\"", "r", "e", "f", "\"", ":", "\"", "s", "e", "a", "\"", ",",
              "\"", "w", "i", "d", "t", "h", "\"", ":", "5", "}", "]">>
        \* []
        Body_empty == <<"[", "]">>
        \* [{"text":"a(three backticks)b"}]
        Body_backticks ==
            <<"[", "{", "\"", "t", "e", "x", "t", "\"", ":", "\"", "a", BQ, BQ, BQ, "b",
              "\"", "}", "]">>
        \* {"type":"text"}
        Body_object ==
            <<"{", "\"", "t", "y", "p", "e", "\"", ":", "\"", "t", "e", "x", "t", "\"", "}">>
        \* {"ref":"sun"}
        Body_object_ref ==
            <<"{", "\"", "r", "e", "f", "\"", ":", "\"", "s", "u", "n", "\"", "}">>
        \* 5
        Body_number == <<"5">>
        \* "hi"
        Body_string == <<"\"", "h", "i", "\"">>
        \* [5]
        Body_list_number == <<"[", "5", "]">>
        \* ["hi"]
        Body_list_string == <<"[", "\"", "h", "i", "\"", "]">>
        \* hi
        Body_prose == <<"h", "i">>
        \* [{"left":790,"top":0,"width":50,"height":10}]
        Body_overflow ==
            <<"[", "{", "\"", "left", "\"", ":", "7", "9", "0", ",",
              "\"", "top", "\"", ":", "0", ",",
              "\"", "w", "i", "d", "t", "h", "\"", ":", "5", "0", ",",
              "\"", "height", "\"", ":", "1", "0", "}", "]">>
    IN  { Body_one_ref, Body_two_elems, Body_empty, Body_backticks, Body_object,
          Body_object_ref, Body_number, Body_string, Body_list_number,
          Body_list_string, Body_prose, Body_overflow }

Fence_bare == <<BQ, BQ, BQ>>
Fence_json == <<BQ, BQ, BQ, "j", "s", "o", "n">>
Fence_py == <<BQ, BQ, BQ, "p", "y">>
FenceOpeners == {Fence_bare, Fence_json, Fence_py}

\* body between an opening fence line and a closing fence line
Wrap(opener, body) == opener \o <<"\n">> \o body \o <<"\n">> \o Fence_bare

RawTexts == Bodies \cup {Wrap(f, b) : f \in FenceOpeners, b \in Bodies}

(***************************************************************************)
(* controllers.py: the fence stripping of create_canva_functions           *)
(***************************************************************************)
clean_markdown(content) ==
    IF str_contains(content, Fence_bare)
    THEN str_strip(str_replace(str_replace(content, Fence_json, <<>>),
                               Fence_bare, <<>>))
    ELSE content

(***************************************************************************)
(* Exceptions: [type, msg, doc]; msg is str(e), doc the text a             *)
(* JSONDecodeError in the chain holds.                                     *)
(***************************************************************************)
NoExc == [type |-> "", msg |-> <<>>, doc |-> <<>>]
Exc(type, msg) == [type |-> type, msg |-> msg, doc |-> <<>>]

\* ValueError(f"Agent returned invalid JSON: {e}"), raised while handling e;
\* str(e) is "<msg>: line l column c (char <pos>)", the line and the column
\* left out here
InvalidJSON(e, content) ==
    [type |-> "ValueError",
     msg |-> <<"Agent returned invalid JSON: ", e.msg, " (char ">>
             \o int_str(e.pos - 1) \o <<")">>,
     doc |-> content]

MissingKey ==
    Exc("ValueError",
        <<"PINECONE_API_KEY not found in environment variables. ",
          "Please set it in your .env file.">>)

(***************************************************************************)
(* The planner's results and the retrieval index                           *)
(***************************************************************************)
MaxQueries == 2
MaxRuns == 2
MaxElems == 2
MaxThreads == 2

Min(a, b) == IF a < b THEN a ELSE b

BoundedSeqs(S, n) == UNION {[1..k -> S] : k \in 0..n}

QueryPool ==
    { <<"An element that renders image content and has positional properties.">>,
      <<"An element that renders text content and has positional properties.">> }

StepLists ==
    { <<<<"Add slide heading">>>>,
      <<<<"Add slide heading">>, <<"Add image of an animal centered on the slide">>>> }

StepBreakdown(steps, rag_query) ==
    [t |-> "StepBreakdown", v |-> [steps |-> steps, rag_query |-> rag_query]]

\* what use_openai returns: message.parsed, a StepBreakdown or None
Plans ==
    {PyNone}
    \cup {StepBreakdown(st, q) : st \in StepLists, q \in BoundedSeqs(QueryPool, MaxQueries)}

\* the fragments of the index in the order of their similarity to a query
IndexDocs == <<"Images", "Text", "Tables", "Videos">>

\* top_k counted per occurrence
top_k_len(request_input) == Len(request_input)

\* top_k = len(set(request_input))
top_k(request_input) == Cardinality(Range(request_input))

\* the queries joined by a space
rag_query_string_space(request_input) == str_join(<<" ">>, request_input)

\* query = ",".join(request_input)
rag_query_string(request_input) == str_join(<<",">>, request_input)

(***************************************************************************)
(* State                                                                   *)
(***************************************************************************)
VARIABLES
    PINECONE_API_KEY,    \* canva_rag.PINECONE_API_KEY, read once at import ("": unset)
    PEXELS_API_KEY,      \* os.environ.get("PEXELS_API_KEY", "")
    _embeddings,         \* canva_rag._embeddings ("None" or the object)
    _vectorstore,        \* canva_rag._vectorstore ("None" or the object)
    pc,                  \* where the request is: idle, create_steps, handle_rag,
                         \* agent, sanitize, replace_images, return, except
    all_steps,           \* create_canva_functions: all_steps
    relevant_canva_doc,  \* create_canva_functions: relevant_canva_doc
    response,            \* response["messages"][-1].content as the agent gave it
    response_content,    \* response_content after the fence stripping
    parsed_response,     \* the list as json.loads returned it (before replace_images)
    json_data,           \* replace_images: json_data, updated in place
    idx,                 \* replace_images: the loop's position (1-based)
    exc,                 \* the exception propagating to canvarequest
    http,                \* the response canvarequest gave
    stages,              \* log: the calls, returns and raises of the stages
    searches,            \* log: the search_pexels_image calls of this replace_images
    runs,                \* requests answered
    passes,              \* replace_images applied to its own result: which pass
    once,                \* the result of the first pass
    tool,                \* the last estimate_pixels call: its arguments and outcome
    request,             \* the HTTP request: its method and its body (a text)
    card,                \* canvarequest: card
    page_dimensions,     \* canvarequest: page_dimensions
    session_id,          \* create_cards: session_id
    cards,               \* create_cards: cards, what the generator returned
    Cards,               \* the rows of the Cards table, oldest first
    threads              \* concurrent query_pinecone calls: where each thread is

vars ==
    << PINECONE_API_KEY, PEXELS_API_KEY, _embeddings, _vectorstore, pc, all_steps,
       relevant_canva_doc, response, response_content, parsed_response, json_data,
       idx, exc, http, stages, searches, runs, passes, once, tool, request,
       card, page_dimensions, session_id, cards, Cards, threads >>

globals == <<PINECONE_API_KEY, PEXELS_API_KEY, _embeddings, _vectorstore>>
harness ==
    <<passes, once, tool, request, card, page_dimensions, session_id, cards, Cards, threads>>

\* no estimate_pixels call yet
NoTool == [called |-> FALSE]

NoHttp == [status |-> 0, body |-> PyNone, error |-> "", detail |-> <<>>]

Ev(fn, ev) == [fn |-> fn, ev |-> ev]
Called(fn) == \E i \in DOMAIN stages : stages[i].fn = fn /\ stages[i].ev = "call"
Returned(fn) == \E i \in DOMAIN stages : stages[i].fn = fn /\ stages[i].ev = "return"
Raised(fn) == \E i \in DOMAIN stages : stages[i].fn = fn /\ stages[i].ev = "raise"

(***************************************************************************)
(* views.py: canvarequest, from the method check of require_http_methods   *)
(* to the call of create_canva_functions.  The JSON values of the request  *)
(* bodies, each sent as json.dumps writes it; one body is no JSON.         *)
(***************************************************************************)
Card(title, description) ==
    PyDict(<<[k |-> <<"title">>, v |-> title], [k |-> <<"description">>, v |-> description]>>)

PageDimensions(width, height) ==
    PyDict(<<[k |-> K_width, v |-> width], [k |-> <<"height">>, v |-> height]>>)

RequestData ==
    LET Wrapper(dimensions) == PyDict(<<[k |-> <<"dimensions">>, v |-> dimensions]>>)
        Dimensions(width, height) == Wrapper(PageDimensions(width, height))
        Data(c, pd) ==
            PyDict(<<[k |-> <<"card">>, v |-> c], [k |-> <<"page_dimensions">>, v |-> pd]>>)
        cats == Card(PyStr(<<"Cats">>), PyStr(<<"About cats">>))
        page == Dimensions(PyInt(800), PyInt(600))
    IN  << Data(cats, page),
           PyInt(5),
           PyDict(<<>>),
           PyDict(<<[k |-> <<"card">>, v |-> cats]>>),
           Data(PyDict(<<[k |-> <<"title">>, v |-> PyStr(<<"Cats">>)]>>), page),
           Data(PyInt(5), page),
           Data(Card(PyInt(5), PyStr(<<"About cats">>)), page),
           Data(cats, PyDict(<<>>)),
           Data(cats, PyInt(5)),
           Data(cats, Wrapper(PyInt(5))),
           Data(cats, Wrapper(PyDict(<<[k |-> K_width, v |-> PyInt(800)]>>))),
           Data(cats, Wrapper(PyList(<<PyStr(K_width), PyStr(<<"height">>)>>))),
           Data(cats, Dimensions(PyInt(0), PyInt(600))),
           Data(cats, Dimensions(PyStr(<<"wide">>), PyInt(600))) >>

Requests ==
    {[method |-> "GET", body |-> <<>>]}
    \cup {[method |-> "POST", body |-> t] :
            t \in {<<"h", "i">>}
                  \cup {json_dumps(RequestData[i]) : i \in DOMAIN RequestData}}

\* What canvarequest does with a request before it calls
\* create_canva_functions: status 0 when it goes on to the call with card
\* and page_dimensions, the response it gives otherwise.
canvarequest_validate(req) ==
    LET Answer(status, error, detail) ==
            [status |-> status, error |-> error, detail |-> detail,
             card |-> PyNone, page_dimensions |-> PyNone]
        BadRequest(error) == Answer(400, error, <<>>)
        \* except Exception as e
        Failed(type) == Answer(500, "Failed to process request", <<type>>)
        data == json_loads(req.body)
        has_card == py_in(PyStr(<<"card">>), data.val)
        has_page == py_in(PyStr(<<"page_dimensions">>), data.val)
        c == py_getitem(data.val, PyStr(<<"card">>))
        wrapper == py_getitem(data.val, PyStr(<<"page_dimensions">>))
        has_dimensions == py_in(PyStr(<<"dimensions">>), wrapper.val)
        dimensions == py_getitem(wrapper.val, PyStr(<<"dimensions">>))
        has_width == py_in(PyStr(K_width), dimensions.val)
        has_height == py_in(PyStr(<<"height">>), dimensions.val)
    IN  IF req.method # "POST" THEN Answer(405, "", <<>>)
        ELSE IF ~data.ok THEN BadRequest("Invalid JSON in request body")
        ELSE IF has_card = "TypeError" THEN Failed("TypeError")
        ELSE IF has_card = "F" THEN BadRequest("Missing required field: card")
        ELSE IF has_page = "TypeError" THEN Failed("TypeError")
        ELSE IF has_page = "F" THEN BadRequest("Missing required field: page_dimensions")
        ELSE IF c.raised THEN Failed(c.type)
        ELSE IF \/ c.val.t # "dict"
                \/ <<"title">> \notin dict_keys(c.val.v)
                \/ <<"description">> \notin dict_keys(c.val.v)
             THEN BadRequest("card must have 'title' and 'description' fields")
        ELSE IF wrapper.raised THEN Failed(wrapper.type)
        ELSE IF has_dimensions = "TypeError" THEN Failed("TypeError")
        ELSE IF has_dimensions = "F"
             THEN BadRequest("page_dimensions must contain 'dimensions' field")
        ELSE IF dimensions.raised THEN Failed(dimensions.type)
        ELSE IF has_width = "TypeError" THEN Failed("TypeError")
        ELSE IF has_width = "F" \/ has_height = "F"
             THEN BadRequest("dimensions must have 'width' and 'height' fields")
        ELSE [status |-> 0, error |-> "", detail |-> <<>>,
              card |-> c.val, page_dimensions |-> dimensions.val]

\* the outcome for each request
Validated == [req \in Requests |-> canvarequest_validate(req)]

\* no request seen yet
NoRequest == [method |-> "", body |-> <<>>]

\* the threads of the process that serve requests
Threads == 1..MaxThreads

\* a thread outside query_pinecone: vectorstore is the local of its last call,
\* calls the calls it has finished, built the PineconeVectorStore it constructed
IdleThread == [pc |-> "idle", vectorstore |-> "None", calls |-> 0, built |-> "None"]

Init ==
    /\ PINECONE_API_KEY \in {"", "pinecone-key"}
    /\ PEXELS_API_KEY \in {"", "pexels-key"}
    /\ _embeddings = "None"
    /\ _vectorstore = "None"
    /\ pc = "idle"
    /\ all_steps = PyNone
    /\ relevant_canva_doc = <<>>
    /\ response = <<>>
    /\ response_content = <<>>
    /\ parsed_response = PyNone
    /\ json_data = PyNone
    /\ idx = 0
    /\ exc = NoExc
    /\ http = NoHttp
    /\ stages = <<>>
    /\ searches = <<>>
    /\ runs = 0
    /\ passes = 0
    /\ once = PyNone
    /\ tool = NoTool
    /\ request = NoRequest
    /\ card = Card(PyStr(<<"Cats">>), PyStr(<<"About cats">>))
    /\ page_dimensions = PageDimensions(PyInt(800), PyInt(600))
    /\ session_id = PyNone
    /\ cards = PyNone
    /\ Cards = <<>>
    /\ threads = [t \in Threads |-> IdleThread]

(***************************************************************************)
(* views.py: canvarequest, a request that passed the validation (card and  *)
(* page_dimensions are those of Init), up to the call of                   *)
(* create_canva_functions                                                  *)
(***************************************************************************)
canvarequest_begin ==
    /\ pc = "idle"
    /\ runs < MaxRuns
    /\ pc' = "create_steps"
    /\ all_steps' = PyNone
    /\ relevant_canva_doc' = <<>>
    /\ response' = <<>>
    /\ response_content' = <<>>
    /\ parsed_response' = PyNone
    /\ json_data' = PyNone
    /\ idx' = 0
    /\ exc' = NoExc
    /\ http' = NoHttp
    /\ stages' = <<>>
    /\ searches' = <<>>
    /\ UNCHANGED <<globals, runs, harness>>

\* the error is kept and the stage is entered again
Propagate_retry(fn, e) ==
    /\ exc' = e
    /\ pc' = pc
    /\ stages' = stages \o <<Ev(fn, "call"), Ev(fn, "raise")>>

\* an exception leaves create_canva_functions from stage fn
Propagate(fn, e) ==
    /\ exc' = e
    /\ pc' = "except"
    /\ stages' = stages \o <<Ev(fn, "call"), Ev(fn, "raise")>>

(***************************************************************************)
(* controllers.py: create_steps (use_openai re-raises what the client      *)
(* raises, and returns message.parsed otherwise)                           *)
(***************************************************************************)
\* create_steps handing over to the agent without the retrieval
create_steps_then_agent ==
    /\ pc = "create_steps"
    /\ \E plan \in Plans : all_steps' = plan
    /\ pc' = "agent"
    /\ stages' = stages \o <<Ev("create_steps", "call"), Ev("create_steps", "return")>>
    /\ UNCHANGED << globals, exc, relevant_canva_doc, response, response_content,
                    parsed_response, json_data, idx, http, searches, runs, harness >>

create_steps ==
    /\ pc = "create_steps"
    /\ \/ /\ Propagate("create_steps", Exc("OpenAIError", <<"OpenAI API error">>))
          /\ UNCHANGED all_steps
       \/ /\ \E plan \in Plans : all_steps' = plan
          /\ pc' = "handle_rag"
          /\ stages' = stages \o <<Ev("create_steps", "call"), Ev("create_steps", "return")>>
          /\ UNCHANGED exc
    /\ UNCHANGED << globals, relevant_canva_doc, response, response_content,
                    parsed_response, json_data, idx, http, searches, runs, harness >>

(***************************************************************************)
(* rag/canva_rag.py: _get_vectorstore.  The outcomes it can have in the    *)
(* current state: [exc, emb, vs], the exception raised (NoExc: it returns  *)
(* vs) and the two globals as it leaves them.                              *)
(***************************************************************************)
\* _get_vectorstore without the check of PINECONE_API_KEY
_get_vectorstore_unchecked ==
    IF _vectorstore # "None"
    THEN {[exc |-> NoExc, emb |-> _embeddings, vs |-> _vectorstore]}
    ELSE { [exc |-> NoExc, emb |-> "OpenAIEmbeddings", vs |-> "PineconeVectorStore"] }

\* _get_vectorstore assigning the handle before the connection is known to work
_get_vectorstore_early ==
    IF _vectorstore # "None"
    THEN {[exc |-> NoExc, emb |-> _embeddings, vs |-> _vectorstore]}
    ELSE IF PINECONE_API_KEY = ""
    THEN {[exc |-> MissingKey, emb |-> _embeddings, vs |-> _vectorstore]}
    ELSE { [exc |-> Exc("OpenAIError", <<"embeddings">>),
            emb |-> _embeddings, vs |-> _vectorstore],
           [exc |-> Exc("PineconeException", <<"index unreachable">>),
            emb |-> "OpenAIEmbeddings", vs |-> "PineconeVectorStore"],
           [exc |-> NoExc, emb |-> "OpenAIEmbeddings", vs |-> "PineconeVectorStore"] }

_get_vectorstore ==
    IF _vectorstore # "None"
    THEN {[exc |-> NoExc, emb |-> _embeddings, vs |-> _vectorstore]}
    ELSE IF PINECONE_API_KEY = ""
    THEN {[exc |-> MissingKey, emb |-> _embeddings, vs |-> _vectorstore]}
    ELSE { \* OpenAIEmbeddings(...) raises
           [exc |-> Exc("OpenAIError", <<"embeddings">>),
            emb |-> _embeddings, vs |-> _vectorstore],
           \* PineconeVectorStore(...) raises: the index cannot be reached
           [exc |-> Exc("PineconeException", <<"index unreachable">>),
            emb |-> "OpenAIEmbeddings", vs |-> _vectorstore],
           [exc |-> NoExc, emb |-> "OpenAIEmbeddings", vs |-> "PineconeVectorStore"] }

(***************************************************************************)
(* rag/canva_rag.py: handle_rag and query_pinecone, called with            *)
(* all_steps.rag_query                                                     *)
(***************************************************************************)
\* similarity_search(query, k): the k nearest fragments, fewer when the index
\* holds fewer
similarity_search(query, k) ==
    {SubSeq(IndexDocs, 1, m) : m \in 0..Min(k, Len(IndexDocs))}

\* log entry: vectorstore.similarity_search(query, k=top_k) was called
SearchEv(query, k) == [fn |-> "similarity_search", ev |-> "call", query |-> query, k |-> k]

handle_rag ==
    /\ pc = "handle_rag"
    /\ IF all_steps.t = "None"
       THEN \* all_steps.rag_query on None: handle_rag is not reached
            /\ exc' = Exc("AttributeError", <<"'NoneType' object has no attribute 'rag_query'">>)
            /\ pc' = "except"
            /\ UNCHANGED <<stages, _embeddings, _vectorstore, relevant_canva_doc>>
       ELSE LET request_input == all_steps.v.rag_query
                k == top_k(request_input)
                query == rag_query_string(request_input)
            IN  \E g \in _get_vectorstore :
                  /\ _embeddings' = g.emb
                  /\ _vectorstore' = g.vs
                  /\ IF g.exc # NoExc
                     THEN /\ Propagate("handle_rag", g.exc)
                          /\ UNCHANGED relevant_canva_doc
                     ELSE \/ \* similarity_search raises: the index cannot be reached
                             /\ exc' = Exc("PineconeException", <<"index unreachable">>)
                             /\ pc' = "except"
                             /\ stages' = stages \o <<Ev("handle_rag", "call"),
                                                      SearchEv(query, k),
                                                      Ev("handle_rag", "raise")>>
                             /\ UNCHANGED relevant_canva_doc
                          \/ /\ \E docs \in similarity_search(query, k) :
                                    relevant_canva_doc' = docs
                             /\ pc' = "agent"
                             /\ stages' = stages \o <<Ev("handle_rag", "call"),
                                                      SearchEv(query, k),
                                                      Ev("handle_rag", "return")>>
                             /\ UNCHANGED exc
    /\ UNCHANGED << PINECONE_API_KEY, PEXELS_API_KEY, all_steps, response,
                    response_content, parsed_response, json_data, idx, http,
                    searches, runs, harness >>

(***************************************************************************)
(* controllers.py: the prompt (it reads page_dimensions["width"] and        *)
(* page_dimensions["height"]) and agent.invoke.  The steps and the         *)
(* documentation are read for the last time here (they are in the          *)
(* messages), so the model forgets them.                                   *)
(***************************************************************************)
\* the user message with the steps in reverse order
agent_messages_reversed(pd, steps) ==
    LET format(v) == IF v.t = "int" THEN int_str(v.v) ELSE v.v
        width == format(py_getitem(pd, PyStr(K_width)).val)
        height == format(py_getitem(pd, PyStr(<<"height">>)).val)
        corner(left, top) == <<"(left=">> \o left \o <<", top=">> \o top \o <<")">>
    IN  [system |-> [top_left |-> corner(<<"0">>, <<"0">>),
                     top_right |-> corner(width, <<"0">>),
                     bottom_left |-> corner(<<"0">>, height),
                     bottom_right |-> corner(width, height)],
         user |-> str_join(<<",">>, [i \in DOMAIN steps |-> steps[Len(steps) + 1 - i]])]

\* The messages given to agent.invoke: of the system message (the prompt) the
\* four corners, each "(left=..., top=...)" with page_dimensions["width"] and
\* page_dimensions["height"] as the f-string formats them (an int in decimal,
\* a str as it is); the user message is steps = ",".join(all_steps.steps).
agent_messages(pd, steps) ==
    LET format(v) == IF v.t = "int" THEN int_str(v.v) ELSE v.v
        width == format(py_getitem(pd, PyStr(K_width)).val)
        height == format(py_getitem(pd, PyStr(<<"height">>)).val)
        corner(left, top) == <<"(left=">> \o left \o <<", top=">> \o top \o <<")">>
    IN  [system |-> [top_left |-> corner(<<"0">>, <<"0">>),
                     top_right |-> corner(width, <<"0">>),
                     bottom_left |-> corner(<<"0">>, height),
                     bottom_right |-> corner(width, height)],
         user |-> str_join(<<",">>, steps)]

agent_invoke ==
    /\ pc = "agent"
    /\ LET width == py_getitem(page_dimensions, PyStr(K_width))
           height == py_getitem(page_dimensions, PyStr(<<"height">>))
       IN  IF width.raised \/ height.raised
           THEN \* the prompt cannot be formatted: agent.invoke is not reached
                /\ exc' = (IF width.raised THEN Exc(width.type, <<width.type>>)
                                           ELSE Exc(height.type, <<height.type>>))
                /\ pc' = "except"
                /\ UNCHANGED <<stages, response>>
           ELSE IF all_steps.t = "None"
           THEN \* all_steps.steps on None: agent.invoke is not reached
                /\ exc' = Exc("AttributeError",
                              <<"'NoneType' object has no attribute 'steps'">>)
                /\ pc' = "except"
                /\ UNCHANGED <<stages, response>>
           ELSE LET invoke == [fn |-> "agent.invoke", ev |-> "call",
                               messages |-> agent_messages(page_dimensions,
                                                           all_steps.v.steps)]
                IN  \/ /\ exc' = Exc("OpenAIError", <<"agent">>)
                       /\ pc' = "except"
                       /\ stages' = stages \o <<invoke, Ev("agent.invoke", "raise")>>
                       /\ UNCHANGED response
                    \/ /\ \E text \in RawTexts : response' = text
                       /\ pc' = "sanitize"
                       /\ stages' = stages \o <<invoke, Ev("agent.invoke", "return")>>
                       /\ UNCHANGED exc
    /\ all_steps' = PyNone
    /\ relevant_canva_doc' = <<>>
    /\ UNCHANGED << globals, response_content, parsed_response, json_data, idx,
                    http, searches, runs, harness >>

(***************************************************************************)
(* controllers.py: the fence stripping and json.loads; on success          *)
(* replace_images is called with the parsed value                          *)
(***************************************************************************)
sanitize ==
    /\ pc = "sanitize"
    /\ LET content == clean_markdown(response)
           r == json_loads(content)
       IN  /\ response_content' = content
           /\ IF r.ok
              THEN /\ parsed_response' = r.val
                   /\ json_data' = r.val
                   /\ idx' = 1
                   /\ pc' = "replace_images"
                   /\ stages' = stages \o <<Ev("sanitize", "call"), Ev("sanitize", "return"),
                                            Ev("replace_images", "call")>>
                   /\ UNCHANGED exc
              ELSE /\ Propagate("sanitize", InvalidJSON(r, content))
                   /\ UNCHANGED <<parsed_response, json_data, idx>>
    /\ UNCHANGED << globals, all_steps, relevant_canva_doc, response, http,
                    searches, runs, harness >>

(***************************************************************************)
(* core/utils.py: replace_images, one iteration of its loop (or its        *)
(* return).  An entry of searches: the query, whether a request was made,  *)
(* the reply, and what search_pexels_image did.                            *)
(***************************************************************************)
Search(query, requested, reply, res) ==
    [query |-> query, requested |-> requested, reply |-> reply, res |-> res]

replace_images_raise(type) ==
    /\ exc' = Exc(type, <<type>>)
    /\ pc' = "except"
    /\ stages' = Append(stages, Ev("replace_images", "raise"))
    /\ UNCHANGED <<json_data, idx>>

replace_images_step ==
    /\ pc = "replace_images"
    /\ LET it == py_iter(json_data) IN
       IF ~it.ok
       THEN replace_images_raise("TypeError") /\ UNCHANGED searches
       ELSE IF idx > Len(it.items)
       THEN /\ pc' = "return"
            /\ stages' = Append(stages, Ev("replace_images", "return"))
            /\ UNCHANGED <<json_data, idx, exc, searches>>
       ELSE LET item == it.items[idx]
                found == has_ref(item)
            IN  IF found = "TypeError"
                THEN replace_images_raise("TypeError") /\ UNCHANGED searches
                ELSE IF found = "F"
                THEN /\ idx' = idx + 1
                     /\ UNCHANGED <<json_data, pc, exc, stages, searches>>
                ELSE LET old == old_ref(item) IN
                     IF old.raised
                     THEN replace_images_raise(old.type) /\ UNCHANGED searches
                     ELSE \E reply \in (IF PEXELS_API_KEY = "" THEN {NoReply}
                                        ELSE PexelsReplies) :
                            LET res == search_pexels_image(old.val, PEXELS_API_KEY, reply)
                            IN  /\ searches' = Append(searches,
                                        Search(old.val, PEXELS_API_KEY # "", reply, res))
                                /\ IF res.raised
                                   THEN /\ exc' = Exc(res.type, <<res.type>>)
                                        /\ pc' = "except"
                                        /\ stages' = stages
                                              \o <<Ev("search_pexels_image", "call"),
                                                   Ev("search_pexels_image", "raise"),
                                                   Ev("replace_images", "raise")>>
                                        /\ UNCHANGED <<json_data, idx>>
                                   ELSE /\ json_data' =
                                              PyList([json_data.v EXCEPT
                                                        ![idx] = replace_ref(item, res.val)])
                                        /\ idx' = idx + 1
                                        /\ stages' = stages
                                              \o <<Ev("search_pexels_image", "call"),
                                                   Ev("search_pexels_image", "return")>>
                                        /\ UNCHANGED <<pc, exc>>
    /\ UNCHANGED << globals, all_steps, relevant_canva_doc, response,
                    response_content, parsed_response, http, runs, harness >>

(***************************************************************************)
(* controllers.py: return json.dumps(functions, indent=2), and views.py:   *)
(* functions = json.loads(functions_json); JsonResponse(functions)         *)
(***************************************************************************)
canvarequest_return ==
    /\ pc = "return"
    /\ LET functions_json == json_dumps(json_data)
           functions == json_loads(functions_json)
       IN  http' = IF functions.ok
                   THEN [status |-> 200, body |-> functions.val,
                         error |-> "", detail |-> <<>>]
                   ELSE [status |-> 500, body |-> PyNone,
                         error |-> "Failed to generate valid response", detail |-> <<>>]
    /\ pc' = "idle"
    /\ runs' = runs + 1
    /\ UNCHANGED << globals, all_steps, relevant_canva_doc, response,
                    response_content, parsed_response, json_data, idx, exc,
                    stages, searches, harness >>

(***************************************************************************)
(* views.py: the except clauses of canvarequest                            *)
(***************************************************************************)
canvarequest_except ==
    /\ pc = "except"
    /\ http' = IF exc.type = "JSONDecodeError"
               THEN [status |-> 500, body |-> PyNone,
                     error |-> "Failed to generate valid response", detail |-> <<>>]
               ELSE [status |-> 500, body |-> PyNone,
                     error |-> "Failed to process request", detail |-> exc.msg]
    /\ pc' = "idle"
    /\ runs' = runs + 1
    /\ UNCHANGED << globals, all_steps, relevant_canva_doc, response,
                    response_content, parsed_response, json_data, idx, exc,
                    stages, searches, harness >>

Next ==
    \/ canvarequest_begin
    \/ create_steps
    \/ handle_rag
    \/ agent_invoke
    \/ sanitize
    \/ replace_images_step
    \/ canvarequest_return
    \/ canvarequest_except

Spec == Init /\ [][Next]_vars

(***************************************************************************)
(* views.py: canvarequest with the requests as they arrive.  A request it  *)
(* answers itself is done in one step; another one goes on to              *)
(* create_canva_functions.                                                 *)
(***************************************************************************)
canvarequest ==
    /\ pc = "idle"
    /\ runs < MaxRuns
    /\ \E req \in Requests :
          LET v == Validated[req] IN
          /\ request' = req
          /\ card' = v.card
          /\ page_dimensions' = v.page_dimensions
          /\ IF v.status = 0
             THEN /\ pc' = "create_steps"
                  /\ http' = NoHttp
                  /\ UNCHANGED runs
             ELSE /\ pc' = "idle"
                  /\ http' = [status |-> v.status, body |-> PyNone,
                              error |-> v.error, detail |-> v.detail]
                  /\ runs' = runs + 1
    /\ all_steps' = PyNone
    /\ relevant_canva_doc' = <<>>
    /\ response' = <<>>
    /\ response_content' = <<>>
    /\ parsed_response' = PyNone
    /\ json_data' = PyNone
    /\ idx' = 0
    /\ exc' = NoExc
    /\ stages' = <<>>
    /\ searches' = <<>>
    /\ UNCHANGED <<globals, passes, once, tool, session_id, cards, Cards, threads>>

NextView ==
    \/ canvarequest
    \/ create_steps
    \/ handle_rag
    \/ agent_invoke
    \/ sanitize
    \/ replace_images_step
    \/ canvarequest_return
    \/ canvarequest_except

SpecView == Init /\ [][NextView]_vars

(***************************************************************************)
(* replace_images on its own: applied to a list of element maps, and then  *)
(* once more to its own result                                             *)
(***************************************************************************)
ElementPool ==
    { PyDict(<<[k |-> K_type, v |-> PyStr(S_image)], [k |-> K_ref, v |-> PyStr(S_sun)]>>),
      PyDict(<<[k |-> K_type, v |-> PyStr(S_text)]>>),
      PyDict(<<[k |-> K_ref, v |-> PyStr(S_sea)], [k |-> K_width, v |-> PyInt(5)]>>) }

ElementLists == {PyList(s) : s \in BoundedSeqs(ElementPool, MaxElems)}

InitResolve ==
    /\ PINECONE_API_KEY = ""
    /\ PEXELS_API_KEY \in {"", "pexels-key"}
    /\ _embeddings = "None"
    /\ _vectorstore = "None"
    /\ pc = "replace_images"
    /\ all_steps = PyNone
    /\ relevant_canva_doc = <<>>
    /\ response = <<>>
    /\ response_content = <<>>
    /\ parsed_response \in ElementLists
    /\ json_data = parsed_response
    /\ idx = 1
    /\ exc = NoExc
    /\ http = NoHttp
    /\ stages = <<Ev("replace_images", "call")>>
    /\ searches = <<>>
    /\ runs = 0
    /\ passes = 1
    /\ once = PyNone
    /\ tool = NoTool
    /\ request = NoRequest
    /\ card = Card(PyStr(<<"Cats">>), PyStr(<<"About cats">>))
    /\ page_dimensions = PageDimensions(PyInt(800), PyInt(600))
    /\ session_id = PyNone
    /\ cards = PyNone
    /\ Cards = <<>>
    /\ threads = [t \in Threads |-> IdleThread]

\* replace_images(replace_images(json_data)): the second application
resolve_again ==
    /\ pc = "return"
    /\ passes = 1
    /\ passes' = 2
    /\ once' = json_data
    /\ parsed_response' = json_data
    /\ idx' = 1
    /\ pc' = "replace_images"
    /\ stages' = <<Ev("replace_images", "call")>>
    /\ searches' = <<>>
    /\ UNCHANGED << globals, all_steps, relevant_canva_doc, response,
                    response_content, json_data, exc, http, runs, tool, request,
                    card, page_dimensions, session_id, cards, Cards, threads >>

NextResolve ==
    \/ replace_images_step
    \/ resolve_again

SpecResolve == InitResolve /\ [][NextResolve]_vars

(***************************************************************************)
(* controllers.py: estimate_pixels, the tool of the agent                  *)
(***************************************************************************)
MaxContent == 4

\* math.ceil
math_ceil(a) == -((-a.n) \div a.d)

\* mu: float = 0.56
mu_default == Q(56, 100)

\* font_size_px = font_size_pt * (96 / 72)
font_size_px(font_size_pt) == float_mul(font_size_pt, Q(96, 72))

\* chars_per_line = box_width_px / (mu * font_size_px)
chars_per_line(box_width_px, mu, fpx) ==
    LET d == float_mul(mu, fpx) IN
    IF d.n = 0 THEN Raise("ZeroDivisionError") ELSE Ret(float_div(box_width_px, d))

\* the number of lines rounded down
num_lines_floor(content, cpl) ==
    IF cpl.n = 0 THEN Raise("ZeroDivisionError")
    ELSE Ret(float_div(Q(Len(content), 1), cpl).n \div float_div(Q(Len(content), 1), cpl).d)

\* num_lines = math.ceil(len(content) / chars_per_line)
num_lines(content, cpl) ==
    IF cpl.n = 0 THEN Raise("ZeroDivisionError")
    ELSE Ret(math_ceil(float_div(Q(Len(content), 1), cpl)))

\* the padding term subtracted
total_height_minus(fpx, n) ==
    float_add(float_mul(float_mul(fpx, Q(14, 10)), Q(n, 1)),
              float_mul(Q(-11, 10), fpx))

\* total_height = (font_size_px * 1.4) * num_lines + (1.1 * font_size_px)
total_height(fpx, n) ==
    float_add(float_mul(float_mul(fpx, Q(14, 10)), Q(n, 1)),
              float_mul(Q(11, 10), fpx))

estimate_pixels(content, box_width_px, font_size_pt, mu) ==
    LET fpx == font_size_px(font_size_pt)
        cpl == chars_per_line(box_width_px, mu, fpx)
    IN  IF cpl.raised THEN cpl
        ELSE LET n == num_lines(content, cpl.val) IN
             IF n.raised THEN n ELSE Ret(total_height(fpx, n.val))

\* the arguments the agent calls the tool with
Contents == {[i \in 1..n |-> "x"] : n \in 0..MaxContent}
BoxWidths == {Q(-10, 1), Q(0, 1), Q(10, 1), Q(25, 2), Q(100, 1)}
FontSizes == {Q(-12, 1), Q(0, 1), Q(6, 1), Q(21, 2), Q(12, 1), Q(24, 1)}
Mus == {mu_default, Q(1, 2), Q(1, 1)}

ToolCall(content, box_width_px, font_size_pt, mu) ==
    [called |-> TRUE, content |-> content, box_width_px |-> box_width_px,
     font_size_pt |-> font_size_pt, mu |-> mu,
     out |-> estimate_pixels(content, box_width_px, font_size_pt, mu)]

InitEstimate ==
    /\ PINECONE_API_KEY = ""
    /\ PEXELS_API_KEY = ""
    /\ _embeddings = "None"
    /\ _vectorstore = "None"
    /\ pc = "tool"
    /\ all_steps = PyNone
    /\ relevant_canva_doc = <<>>
    /\ response = <<>>
    /\ response_content = <<>>
    /\ parsed_response = PyNone
    /\ json_data = PyNone
    /\ idx = 0
    /\ exc = NoExc
    /\ http = NoHttp
    /\ stages = <<>>
    /\ searches = <<>>
    /\ runs = 0
    /\ passes = 0
    /\ once = PyNone
    /\ tool = NoTool
    /\ request = NoRequest
    /\ card = Card(PyStr(<<"Cats">>), PyStr(<<"About cats">>))
    /\ page_dimensions = PageDimensions(PyInt(800), PyInt(600))
    /\ session_id = PyNone
    /\ cards = PyNone
    /\ Cards = <<>>
    /\ threads = [t \in Threads |-> IdleThread]

\* one call of the tool by the agent
estimate_pixels_call ==
    /\ pc = "tool"
    /\ \E content \in Contents, box_width_px \in BoxWidths,
          font_size_pt \in FontSizes, mu \in Mus :
          tool' = ToolCall(content, box_width_px, font_size_pt, mu)
    /\ UNCHANGED << globals, pc, all_steps, relevant_canva_doc, response,
                    response_content, parsed_response, json_data, idx, exc, http,
                    stages, searches, runs, passes, once, request, card,
                    page_dimensions, session_id, cards, Cards, threads >>

NextEstimate == estimate_pixels_call

SpecEstimate == InitEstimate /\ [][NextEstimate]_vars

(***************************************************************************)
(* cards/views.py: create_cards.  The response is [status, body], body the *)
(* JSON value JsonResponse is given.                                       *)
(***************************************************************************)
\* int(x)
py_int(x) ==
    CASE x.t = "int" -> Ret(x)
      [] x.t = "bool" -> Ret(PyInt(IF x.v THEN 1 ELSE 0))
      [] x.t = "float" -> Ret(PyInt(IF x.v.n >= 0 THEN x.v.n \div x.v.d
                                                  ELSE -((-x.v.n) \div x.v.d)))
      [] x.t = "str" ->
            LET s == str_strip(x.v)
                from == IF At(s, 1) \in {"-", "+"} THEN 2 ELSE 1
            IN  IF from <= Len(s) /\ \A i \in from..Len(s) : s[i] \in Range(Digits)
                THEN Ret(PyInt((IF At(s, 1) = "-" THEN -1 ELSE 1)
                               * match_number(s, from, 0).val.v))
                ELSE Raise("ValueError")
      [] OTHER -> Raise("TypeError")

JsonResponse(data, status) == [status |-> status, body |-> data]

ErrorBody(error) == PyDict(<<[k |-> <<"error">>, v |-> PyStr(error)]>>)

\* except Exception as e
FailedToCreate(type) ==
    JsonResponse(PyDict(<<[k |-> <<"error">>, v |-> PyStr(<<"Failed to create cards">>)],
                          [k |-> <<"detail">>, v |-> PyStr(<<type>>)]>>), 500)

required_fields == <<<<"user_input">>, <<"session_id">>, <<"n_cards">>>>

\* What create_cards does with a request before it calls the generator:
\* ok with session_id and n_cards when it goes on to the call, the response
\* it gives otherwise.
create_cards_validate(req) ==
    LET Answer(resp) == [ok |-> FALSE, http |-> resp, session_id |-> PyNone,
                         n_cards |-> PyNone]
        data == json_loads(req.body)
        found == [i \in DOMAIN required_fields |->
                    py_in(PyStr(required_fields[i]), data.val)]
        missing_fields == SelectSeq(required_fields,
                                    LAMBDA f : py_in(PyStr(f), data.val) = "F")
        user_input == py_getitem(data.val, PyStr(<<"user_input">>))
        sid == py_getitem(data.val, PyStr(<<"session_id">>))
        raw == py_getitem(data.val, PyStr(<<"n_cards">>))
        n_cards == py_int(raw.val)
    IN  IF req.method # "POST" THEN Answer(JsonResponse(PyNone, 405))
        ELSE IF ~data.ok
        THEN Answer(JsonResponse(ErrorBody(<<"Invalid JSON in request body">>), 400))
        ELSE IF \E i \in DOMAIN found : found[i] = "TypeError"
        THEN Answer(FailedToCreate("TypeError"))
        ELSE IF missing_fields # <<>>
        THEN Answer(JsonResponse(
                 ErrorBody(<<"Missing required fields: ">>
                           \o str_join(<<", ">>, missing_fields)), 400))
        ELSE IF user_input.raised THEN Answer(FailedToCreate(user_input.type))
        ELSE IF sid.raised THEN Answer(FailedToCreate(sid.type))
        ELSE IF raw.raised THEN Answer(FailedToCreate(raw.type))
        ELSE IF n_cards.raised \/ n_cards.val.v < 1
        THEN Answer(JsonResponse(ErrorBody(<<"n_cards must be a positive integer">>), 400))
        ELSE [ok |-> TRUE, http |-> NoHttp, session_id |-> sid.val,
              n_cards |-> n_cards.val]

\* the requests: GET; POST with texts that are not objects, with objects
\* lacking a field, and with {"user_input":"cats","session_id":"s1",
\* "n_cards":<n_cards>} for n_cards given as each of NCardsTexts
CardsRequests ==
    LET CardsBody(n_cards) ==
            <<"{", "\"", "user_input", "\"", ":", "\"", "cats", "\"", ",",
              "\"", "session_id", "\"", ":", "\"", "s1", "\"", ",",
              "\"", "n_cards", "\"", ":">> \o n_cards \o <<"}">>
        NCardsTexts ==
            { <<"1">>, <<"2">>, <<"0">>, <<"-", "1">>, <<"2", ".", "5">>,
              <<"0", ".", "5">>, <<"\"", "3", "\"">>, <<"\"", "x", "\"">>,
              <<"t", "r", "u", "e">>, <<"n", "u", "l", "l">>, <<"[", "1", "]">> }
    IN  {[method |-> "GET", body |-> <<>>]}
        \cup {[method |-> "POST", body |-> t] :
                t \in { <<"h", "i">>, <<"5">>, <<"{", "}">>,
                        <<"[", "\"", "user_input", "\"", ",", "\"", "session_id", "\"",
                          ",", "\"", "n_cards", "\"", "]">>,
                        <<"{", "\"", "user_input", "\"", ":", "\"", "cats", "\"", ",",
                          "\"", "n_cards", "\"", ":", "2", "}">>,
                        <<"{", "\"", "user_input", "\"", ":", "\"", "cats", "\"", ",",
                          "\"", "session_id", "\"", ":", "\"", "s1", "\"", "}">> }
                      \cup {CardsBody(n) : n \in NCardsTexts}}

CardsValidated == [req \in CardsRequests |-> create_cards_validate(req)]

MaxCards == 2

\* what create_cards_from_user_input returns: one {"title", "description"}
\* per card of response.cards, whatever n_cards was
CardLists ==
    {PyList(l) :
        l \in BoundedSeqs({Card(PyStr(<<"Cats">>), PyStr(<<"About cats">>)),
                           Card(PyStr(<<"Dogs">>), PyStr(<<"About dogs">>))}, MaxCards)}

InitCards ==
    /\ Init
    /\ PINECONE_API_KEY = ""
    /\ PEXELS_API_KEY = ""

create_cards ==
    /\ pc = "idle"
    /\ runs < MaxRuns
    /\ \E req \in CardsRequests :
          /\ request' = req
          /\ session_id' = CardsValidated[req].session_id
          /\ IF CardsValidated[req].ok
             THEN /\ pc' = "create_cards_from_user_input"
                  /\ http' = NoHttp
                  /\ UNCHANGED runs
             ELSE /\ pc' = "idle"
                  /\ http' = CardsValidated[req].http
                  /\ runs' = runs + 1
    /\ cards' = PyNone
    /\ idx' = 0
    /\ exc' = NoExc
    /\ stages' = <<>>
    /\ UNCHANGED << globals, all_steps, relevant_canva_doc, response,
                    response_content, parsed_response, json_data, searches,
                    passes, once, tool, card, page_dimensions, Cards, threads >>

(***************************************************************************)
(* cards/controllers.py: create_cards_from_user_input                      *)
(***************************************************************************)
create_cards_from_user_input ==
    /\ pc = "create_cards_from_user_input"
    /\ \/ \* use_openai raises
          /\ Propagate("create_cards_from_user_input",
                       Exc("OpenAIError", <<"OpenAI API error">>))
          /\ UNCHANGED <<cards, idx>>
       \/ \* message.parsed is None: response.cards
          /\ Propagate("create_cards_from_user_input",
                       Exc("AttributeError",
                           <<"'NoneType' object has no attribute 'cards'">>))
          /\ UNCHANGED <<cards, idx>>
       \/ /\ \E l \in CardLists : cards' = l
          /\ idx' = 1
          /\ pc' = "Cards.objects.create"
          /\ stages' = stages \o <<Ev("create_cards_from_user_input", "call"),
                                   Ev("create_cards_from_user_input", "return")>>
          /\ UNCHANGED exc
    /\ UNCHANGED << globals, all_steps, relevant_canva_doc, response,
                    response_content, parsed_response, json_data, http, searches,
                    runs, passes, once, tool, request, card, page_dimensions,
                    session_id, Cards, threads >>

(***************************************************************************)
(* cards/views.py: one iteration of the loop that saves the cards, and the *)
(* response after the last one                                             *)
(***************************************************************************)
Cards_objects_create ==
    /\ pc = "Cards.objects.create"
    /\ IF idx > Len(cards.v)
       THEN /\ http' = JsonResponse(cards, 200)
            /\ pc' = "idle"
            /\ runs' = runs + 1
            /\ UNCHANGED <<Cards, idx, exc, stages>>
       ELSE \/ \* the database refuses the row
               /\ Propagate("Cards.objects.create",
                            Exc("DatabaseError", <<"DatabaseError">>))
               /\ UNCHANGED <<Cards, idx, http, runs>>
            \/ /\ Cards' = Append(Cards,
                      [session_id |-> session_id,
                       title |-> py_getitem(cards.v[idx], PyStr(<<"title">>)).val,
                       description |->
                           py_getitem(cards.v[idx], PyStr(<<"description">>)).val])
               /\ idx' = idx + 1
               /\ stages' = stages \o <<Ev("Cards.objects.create", "call"),
                                        Ev("Cards.objects.create", "return")>>
               /\ UNCHANGED <<pc, exc, http, runs>>
    /\ UNCHANGED << globals, all_steps, relevant_canva_doc, response,
                    response_content, parsed_response, json_data, searches,
                    passes, once, tool, request, card, page_dimensions,
                    session_id, cards, threads >>

\* cards/views.py: except Exception as e
create_cards_except ==
    /\ pc = "except"
    /\ http' = FailedToCreate(exc.type)
    /\ pc' = "idle"
    /\ runs' = runs + 1
    /\ UNCHANGED << globals, all_steps, relevant_canva_doc, response,
                    response_content, parsed_response, json_data, idx, exc,
                    stages, searches, harness >>

NextCards ==
    \/ create_cards
    \/ create_cards_from_user_input
    \/ Cards_objects_create
    \/ create_cards_except

SpecCards == InitCards /\ [][NextCards]_vars

(***************************************************************************)
(* rag/canva_rag.py: query_pinecone called by several threads of one       *)
(* process.  _get_vectorstore takes no lock, so a step is one statement of *)
(* it: the test of line 37 (with the key check), line 45, lines 48-51,     *)
(* line 55, and then the search of line 72.  A call that raises ends.      *)
(***************************************************************************)
\* what the thread steps leave alone
request_state ==
    << PINECONE_API_KEY, PEXELS_API_KEY, pc, all_steps, relevant_canva_doc,
       response, response_content, parsed_response, json_data, idx, exc, http,
       stages, searches, runs, passes, once, tool, request, card,
       page_dimensions, session_id, cards, Cards >>

\* vectorstore = _get_vectorstore(): if _vectorstore is None, and the key check
query_pinecone(t) ==
    /\ threads[t].pc = "idle"
    /\ threads[t].calls < MaxRuns
    /\ threads' = [threads EXCEPT ![t] =
          IF _vectorstore # "None"
          THEN [@ EXCEPT !.pc = "return", !.vectorstore = "None"]
          ELSE IF PINECONE_API_KEY = ""
          THEN \* raise ValueError
               [@ EXCEPT !.vectorstore = "None", !.calls = @ + 1]
          ELSE [@ EXCEPT !.pc = "embeddings", !.vectorstore = "None"]]
    /\ UNCHANGED <<_embeddings, _vectorstore, request_state>>

\* _embeddings = OpenAIEmbeddings(...)
_get_vectorstore_embeddings(t) ==
    /\ threads[t].pc = "embeddings"
    /\ \/ \* OpenAIEmbeddings(...) raises
          /\ threads' = [threads EXCEPT ![t].pc = "idle", ![t].calls = @ + 1]
          /\ UNCHANGED _embeddings
       \/ /\ _embeddings' = "OpenAIEmbeddings"
          /\ threads' = [threads EXCEPT ![t].pc = "connect"]
    /\ UNCHANGED <<_vectorstore, request_state>>

\* _vectorstore = PineconeVectorStore(index_name=..., embedding=_embeddings):
\* a new object each time, named here by the thread that constructs it
_get_vectorstore_connect(t) ==
    /\ threads[t].pc = "connect"
    /\ \/ \* PineconeVectorStore(...) raises: the index cannot be reached
          /\ threads' = [threads EXCEPT ![t].pc = "idle", ![t].calls = @ + 1]
          /\ UNCHANGED _vectorstore
       \/ LET object == <<"PineconeVectorStore@1", "PineconeVectorStore@2",
                          "PineconeVectorStore@3">>[t]
          IN  /\ _vectorstore' = object
              /\ threads' = [threads EXCEPT ![t].pc = "return", ![t].built = object]
    /\ UNCHANGED <<_embeddings, request_state>>

\* return _vectorstore
_get_vectorstore_return(t) ==
    /\ threads[t].pc = "return"
    /\ threads' = [threads EXCEPT ![t].pc = "similarity_search",
                                  ![t].vectorstore = _vectorstore]
    /\ UNCHANGED <<_embeddings, _vectorstore, request_state>>

\* vectorstore.similarity_search(query, k=top_k), which returns or raises
vectorstore_similarity_search(t) ==
    /\ threads[t].pc = "similarity_search"
    /\ threads' = [threads EXCEPT ![t].pc = "idle", ![t].calls = @ + 1]
    /\ UNCHANGED <<_embeddings, _vectorstore, request_state>>

NextThreads ==
    \/ \E t \in Threads : query_pinecone(t)
    \/ \E t \in Threads : _get_vectorstore_embeddings(t)
    \/ \E t \in Threads : _get_vectorstore_connect(t)
    \/ \E t \in Threads : _get_vectorstore_return(t)
    \/ \E t \in Threads : vectorstore_similarity_search(t)

SpecThreads == Init /\ [][NextThreads]_vars

(***************************************************************************)
(* Properties                                                              *)
(***************************************************************************)
StageOrder == <<"create_steps", "handle_rag", "agent.invoke", "sanitize", "replace_images">>

IsStageEvent(e) == e.fn \in Range(StageOrder)

IndexOfFirst(fn, ev) ==
    CHOOSE i \in DOMAIN stages :
        /\ stages[i].fn = fn /\ stages[i].ev = ev
        /\ \A j \in 1..(i - 1) : ~(stages[j].fn = fn /\ stages[j].ev = ev)

\* C1: in every run the stages are called in the order create_steps,
\* handle_rag, agent.invoke, sanitize, replace_images, each one only after
\* the one before it has returned (a stage that raises is the last), and no
\* search_pexels_image call comes before the sanitizer has returned.
C1_StagesInOrder ==
    LET p == SelectSeq(stages, IsStageEvent) IN
    /\ Len(p) <= 2 * Len(StageOrder)
    /\ \A i \in DOMAIN p :
          /\ p[i].fn = StageOrder[(i + 1) \div 2]
          /\ IF i % 2 = 1 THEN p[i].ev = "call"
             ELSE \/ p[i].ev = "return"
                  \/ p[i].ev = "raise" /\ i = Len(p)
    /\ \A i \in DOMAIN stages :
          stages[i].fn = "search_pexels_image" =>
              /\ Returned("sanitize")
              /\ IndexOfFirst("sanitize", "return") < i
              /\ parsed_response.t # "None"

C1_Witness ==
    /\ pc = "return"
    /\ Returned("replace_images")
    /\ Called("search_pexels_image")
    /\ Len(SelectSeq(stages, IsStageEvent)) = 2 * Len(StageOrder)

\* C2: when the retrieval fails (PINECONE_API_KEY missing, or the index not
\* reachable when the store is built or searched) the run ends with that
\* exception, the caller gets it as a 500 with its message, and the agent is
\* never invoked in that run; with the key missing every run that reaches
\* the retrieval fails there.
C2_RetrievalFailureSurfaces ==
    /\ Raised("handle_rag") =>
          /\ ~Called("agent.invoke")
          /\ ~Called("sanitize")
          /\ pc \in {"except", "idle"}
          /\ exc.type \in {"ValueError", "PineconeException", "OpenAIError"}
          /\ pc = "idle" =>
                /\ http.status = 500
                /\ http.error = "Failed to process request"
                /\ http.detail = exc.msg
    /\ (PINECONE_API_KEY = "" /\ Called("handle_rag")) =>
          /\ Raised("handle_rag")
          /\ exc = MissingKey
    /\ PINECONE_API_KEY = "" => ~Called("agent.invoke") /\ _vectorstore = "None"

C2_Witness ==
    /\ pc = "idle"
    /\ Raised("handle_rag")
    /\ exc.type = "PineconeException"
    /\ _vectorstore # "None"
    /\ http.status = 500

\* C3: when the agent's final message does not parse as JSON the run fails
\* with an error that carries the offending raw text (as the message of the
\* exception or as the text it holds), replace_images is not run and no
\* layout is returned.
C3_MalformedCarriesRawText ==
    Raised("sanitize") =>
        /\ exc.doc = response \/ str_contains(exc.msg, response)
        /\ ~Called("replace_images")
        /\ http.status # 200

\* C4: agent output that parses as JSON but is not an array of element maps
\* is an error of the sanitizer: what the sanitizer hands to replace_images,
\* and what the caller gets with a 200, is a list of maps.
IsElementList(o) ==
    /\ o.t = "list"
    /\ \A i \in DOMAIN o.v : o.v[i].t = "dict"

C4_OnlyElementListsPass ==
    /\ Returned("sanitize") => IsElementList(parsed_response)
    /\ http.status = 200 => IsElementList(http.body)

\* C5: a valid JSON array wrapped in a leading and a trailing code fence
\* (bare, or with any language tag) sanitizes to the array that parsing the
\* unwrapped text gives.
C5_FencedArrayRoundTrips ==
    \A f \in FenceOpeners, b \in Bodies :
        LET direct == json_loads(b) IN
        (/\ Called("sanitize")
         /\ response = Wrap(f, b)
         /\ direct.ok
         /\ direct.val.t = "list") =>
            /\ Returned("sanitize")
            /\ parsed_response = direct.val

\* C6: replace_images is idempotent: applied to its own result it gives that
\* result again; on a list without ref keys it changes nothing and makes no
\* search_pexels_image call.
HasRef(element) == K_ref \in dict_keys(element.v)

C6_ResolveIdempotent ==
    /\ (passes = 2 /\ pc = "return") => json_data = once
    /\ (pc = "return" /\ \A k \in DOMAIN parsed_response.v : ~HasRef(parsed_response.v[k])) =>
          json_data = parsed_response /\ searches = <<>>

\* C7: on every failure of the image search (key missing, request error,
\* empty result set, a body without the expected fields) search_pexels_image
\* returns the placeholder and replace_images does not raise; with the key
\* missing no request is made.
SearchFailed(s) ==
    \/ ~s.requested
    \/ s.reply.error
    \/ first_result(s.reply).raised

C7_SearchFailureGivesPlaceholder ==
    /\ pc # "except"
    /\ \A i \in DOMAIN searches :
          /\ SearchFailed(searches[i]) =>
                ~searches[i].res.raised /\ searches[i].res.val = placeholder_url
          /\ PEXELS_API_KEY = "" => ~searches[i].requested

\* the ref values of the first n elements that carry ref, in element order
RECURSIVE RefQueries(_, _)
RefQueries(elements, n) ==
    IF n = 0 THEN <<>>
    ELSE IF HasRef(elements[n])
         THEN Append(RefQueries(elements, n - 1), dict_get(elements[n].v, K_ref))
         ELSE RefQueries(elements, n - 1)

\* the elements replace_images has looked at (the one it raised on included)
Visited ==
    CASE pc = "return" -> Len(parsed_response.v)
      [] pc = "except" -> idx
      [] OTHER -> idx - 1

\* C8: replace_images calls search_pexels_image once for each element that
\* carries ref, in element order, with the element's ref value before the
\* call as the query, and none for the others; the value it stores under ref
\* is what the call returned, which on success is photos[0].src.medium of the
\* reply.
C8_OneSearchPerRef ==
    LET input == parsed_response.v IN
    /\ [i \in DOMAIN searches |-> searches[i].query] = RefQueries(input, Visited)
    /\ \A k \in 1..Visited :
          (HasRef(input[k]) /\ ~(pc = "except" /\ k = idx)) =>
              dict_get(json_data.v[k].v, K_ref)
                  = searches[Len(RefQueries(input, k))].res.val
    /\ \A i \in DOMAIN searches :
          (searches[i].requested /\ ~searches[i].reply.error
              /\ ~first_result(searches[i].reply).raised) =>
              searches[i].res = first_result(searches[i].reply)

C8_Witness ==
    /\ pc = "return"
    /\ passes = 1
    /\ Len(parsed_response.v) = 2
    /\ Len(searches) = 2
    /\ searches[1].query = PyStr(S_sun)
    /\ searches[2].query = PyStr(S_sea)
    /\ searches[1].res.val = Url2
    /\ dict_get(json_data.v[1].v, K_ref) = Url2
    /\ dict_get(json_data.v[2].v, K_ref) = placeholder_url

\* C9: replace_images leaves every element without ref as it was, changes
\* the value of no key other than ref (and adds or drops no key), and keeps
\* the length and the order of the list.
C9_ResolveFrame ==
    /\ json_data.t = "list"
    /\ Len(json_data.v) = Len(parsed_response.v)
    /\ \A k \in DOMAIN parsed_response.v :
          LET a == parsed_response.v[k]
              b == json_data.v[k]
          IN  /\ b.t = "dict"
              /\ Len(b.v) = Len(a.v)
              /\ \A i \in DOMAIN a.v :
                    /\ b.v[i].k = a.v[i].k
                    /\ a.v[i].k # K_ref => b.v[i] = a.v[i]
              /\ ~HasRef(a) => b = a

C9_Witness ==
    /\ pc = "return"
    /\ passes = 1
    /\ Len(parsed_response.v) = 2
    /\ json_data # parsed_response
    /\ \E k \in DOMAIN parsed_response.v : ~HasRef(parsed_response.v[k])
    /\ \E k \in DOMAIN parsed_response.v :
          HasRef(parsed_response.v[k]) /\ K_width \in dict_keys(json_data.v[k].v)

\* C10: handle_rag returns no more fragments than there are distinct values
\* in the query list, repeated queries included.
C10_AtMostDistinctQueries ==
    pc = "agent" =>
        Len(relevant_canva_doc) <= Cardinality(Range(all_steps.v.rag_query))

C10_Witness ==
    /\ pc = "agent"
    /\ Len(all_steps.v.rag_query) = 2
    /\ Cardinality(Range(all_steps.v.rag_query)) = 1
    /\ Len(relevant_canva_doc) = 1

C12_NonPositiveFails ==
    (tool.called /\ (tool.box_width_px.n <= 0 \/ tool.font_size_pt.n <= 0)) =>
        tool.out.raised

\* C13: create_steps never hands a null plan to its caller: whenever the run
\* has gone past create_steps to the retrieval, all_steps is a StepBreakdown;
\* and after a failure of create_steps neither handle_rag nor agent.invoke
\* is called.
C13_NeverNullPlan ==
    /\ pc = "handle_rag" => all_steps.t = "StepBreakdown"
    /\ Raised("create_steps") => ~Called("handle_rag") /\ ~Called("agent.invoke")

\* C14: every layout returned with status 200 is a list of elements that
\* each have width, with left >= 0, top >= 0, left + width <= the page's
\* width and top + height <= the page's height.
C14_LayoutInsidePage ==
    http.status = 200 =>
        /\ http.body.t = "list"
        /\ \A i \in DOMAIN http.body.v :
              LET get(k) == py_getitem(http.body.v[i], PyStr(k))
                  left == get(<<"left">>)
                  top == get(<<"top">>)
                  width == get(K_width)
                  height == get(<<"height">>)
                  page_width == py_getitem(page_dimensions, PyStr(K_width)).val.v
                  page_height == py_getitem(page_dimensions, PyStr(<<"height">>)).val.v
              IN  /\ http.body.v[i].t = "dict"
                  /\ ~width.raised /\ width.val.t = "int"
                  /\ ~left.raised /\ left.val.t = "int" /\ left.val.v >= 0
                  /\ ~top.raised /\ top.val.t = "int" /\ top.val.v >= 0
                  /\ ~height.raised /\ height.val.t = "int"
                  /\ left.val.v + width.val.v <= page_width
                  /\ top.val.v + height.val.v <= page_height

\* C15: a request that is not a POST is answered 405; a POST whose body is
\* not JSON, or lacks card or page_dimensions, or whose card lacks title or
\* description, or whose page_dimensions lacks the nested dimensions with
\* width and height, is answered 400 with an error; in all these cases
\* create_canva_functions is not called.
C15_BadRequestRejected ==
    LET has(d, k) == d.t = "dict" /\ k \in dict_keys(d.v)
        get(d, k) == py_getitem(d, PyStr(k)).val
        data == json_loads(request.body)
        well_formed ==
            /\ data.ok
            /\ has(data.val, <<"card">>)
            /\ has(data.val, <<"page_dimensions">>)
            /\ has(get(data.val, <<"card">>), <<"title">>)
            /\ has(get(data.val, <<"card">>), <<"description">>)
            /\ has(get(data.val, <<"page_dimensions">>), <<"dimensions">>)
            /\ has(get(get(data.val, <<"page_dimensions">>), <<"dimensions">>), K_width)
            /\ has(get(get(data.val, <<"page_dimensions">>), <<"dimensions">>), <<"height">>)
    IN  (request # NoRequest /\ ~(request.method = "POST" /\ well_formed)) =>
            /\ stages = <<>>
            /\ pc = "idle"
            /\ http.status = (IF request.method = "POST" THEN 400 ELSE 405)
            /\ request.method = "POST" => http.error # ""

\* C16: no external call is made for malformed parameters: once a stage has
\* been called, card's title and description are strings and
\* page_dimensions is a map whose width and height are positive numbers.
C16_MalformedRejectedBeforeCalls ==
    LET is_str(d, k) ==
            LET x == py_getitem(d, PyStr(k)) IN ~x.raised /\ x.val.t = "str"
        positive(d, k) ==
            LET x == py_getitem(d, PyStr(k))
            IN  /\ ~x.raised
                /\ \/ x.val.t = "int" /\ x.val.v > 0
                   \/ x.val.t = "float" /\ x.val.v.n > 0
    IN  stages # <<>> =>
            /\ card.t = "dict"
            /\ is_str(card, <<"title">>)
            /\ is_str(card, <<"description">>)
            /\ page_dimensions.t = "dict"
            /\ positive(page_dimensions, K_width)
            /\ positive(page_dimensions, <<"height">>)

\* C17: a run of the pipeline ends either with status 200 and a body that
\* is the whole array replace_images returned, or with an error status and
\* an error text; no other body is given.
C17_ArrayOrStructuredError ==
    (pc = "idle" /\ runs > 0) =>
        \/ /\ http.status = 200
           /\ http.body.t = "list"
           /\ http.body = json_data
        \/ /\ http.status = 500
           /\ http.error # ""
           /\ http.body = PyNone

\* C18: a run returns a layout exactly when create_steps, handle_rag,
\* agent.invoke and the sanitizer have all returned, whatever the image
\* searches did; and when one of the four raises, no later stage is called.
C18_LayoutIffFourStages ==
    LET four == <<"create_steps", "handle_rag", "agent.invoke", "sanitize">> IN
    /\ (pc = "idle" /\ runs > 0) =>
          (http.status = 200 <=> \A i \in DOMAIN four : Returned(four[i]))
    /\ \A i \in DOMAIN four :
          Raised(four[i]) =>
              /\ \A j \in (i + 1)..Len(four) : ~Called(four[j])
              /\ ~Called("replace_images")

\* C19: every call of a stage that goes to an external service (the
\* completion of create_steps, the retrieval, the agent, the image search)
\* is made with a timeout.
C19_EveryCallHasTimeout ==
    \A i \in DOMAIN stages :
        (/\ stages[i].ev = "call"
         /\ stages[i].fn \in {"create_steps", "handle_rag", "agent.invoke",
                              "search_pexels_image"})
            => call_timeout(stages[i].fn) # PyNone

\* C20: create_cards answers a request that is not a POST with 405; a POST
\* whose body is not JSON, or lacks user_input, session_id or n_cards, or
\* whose n_cards is not an integer >= 1, with 400, the generator not called
\* and no row written; and when it answers 200 it has written one row per
\* generated card, in order, with the request's session_id, and the body is
\* the generated cards.
C20_CreateCardsContract ==
    LET has(d, k) == d.t = "dict" /\ k \in dict_keys(d.v)
        get(d, k) == py_getitem(d, PyStr(k)).val
        data == json_loads(request.body)
        well_formed ==
            /\ request.method = "POST"
            /\ data.ok
            /\ \A i \in DOMAIN required_fields : has(data.val, required_fields[i])
            /\ get(data.val, <<"n_cards">>).t = "int"
            /\ get(data.val, <<"n_cards">>).v >= 1
        written == Len(SelectSeq(stages,
                       LAMBDA e : e = Ev("Cards.objects.create", "return")))
        rows == SubSeq(Cards, Len(Cards) - written + 1, Len(Cards))
    IN  (pc = "idle" /\ runs > 0) =>
            /\ ~well_formed =>
                  /\ http.status = (IF request.method = "POST" THEN 400 ELSE 405)
                  /\ ~Called("create_cards_from_user_input")
                  /\ written = 0
            /\ http.status = 200 =>
                  /\ http.body = cards
                  /\ Len(rows) = Len(cards.v)
                  /\ \A i \in DOMAIN rows :
                        rows[i] = [session_id |-> get(data.val, <<"session_id">>),
                                   title |-> get(cards.v[i], <<"title">>),
                                   description |-> get(cards.v[i], <<"description">>)]

\* C21: handle_rag makes at most one similarity search, and exactly one when
\* it returns; the search's query string is the queries in their order, each
\* followed by a comma except the last, repeated queries included; its k is
\* the number of distinct queries.
C21_OneCompositeSearch ==
    LET S == SelectSeq(stages, LAMBDA e : e.fn = "similarity_search")
        q == all_steps.v.rag_query
        joined[n \in 0..MaxQueries + 1] ==
            IF n = 0 THEN <<>>
            ELSE IF n = 1 THEN q[1]
            ELSE joined[n - 1] \o <<",">> \o q[n]
    IN  /\ Len(S) <= 1
        /\ Returned("handle_rag") => Len(S) = 1
        /\ (all_steps.t = "StepBreakdown" /\ Len(S) = 1) =>
              /\ S[1].query = joined[Len(q)]
              /\ S[1].k = Cardinality({q[i] : i \in DOMAIN q})
              /\ pc = "agent" => Len(relevant_canva_doc) <= S[1].k

C21_Witness ==
    /\ pc = "agent"
    /\ Len(all_steps.v.rag_query) = 2
    /\ all_steps.v.rag_query[1] = all_steps.v.rag_query[2]
    /\ \E i \in DOMAIN stages :
          /\ stages[i].fn = "similarity_search"
          /\ stages[i].k = 1
          /\ stages[i].query = all_steps.v.rag_query[1] \o <<",">>
                               \o all_steps.v.rag_query[2]

C24_NothingRetried ==
    LET calls(fn) == Len(SelectSeq(stages, LAMBDA e : e.fn = fn /\ e.ev = "call"))
        with_ref == IF parsed_response.t # "list" THEN {}
                    ELSE {i \in DOMAIN parsed_response.v :
                            /\ parsed_response.v[i].t = "dict"
                            /\ K_ref \in dict_keys(parsed_response.v[i].v)}
    IN  /\ \A fn \in {"create_steps", "handle_rag", "similarity_search",
                      "agent.invoke", "sanitize", "replace_images"} : calls(fn) <= 1
        /\ calls("search_pexels_image") <= Cardinality(with_ref)
        /\ \A i \in DOMAIN stages :
              stages[i].ev = "raise" =>
                  \A j \in (i + 1)..Len(stages) : stages[j].ev # "call"

C24_Witness ==
    /\ pc = "idle"
    /\ http.status = 500
    /\ Raised("search_pexels_image")
    /\ Len(SelectSeq(stages, LAMBDA e : e.fn = "search_pexels_image")) = 2
    /\ Len(SelectSeq(stages, LAMBDA e : e.ev = "call")) = 7

\* C25: the PineconeVectorStore is constructed at most once in the process,
\* whatever the interleaving of the query_pinecone calls, and the handle a
\* call obtained is the shared _vectorstore from then on (nothing replaces it).
C25_ConstructedOnce ==
    /\ Cardinality({t \in Threads : threads[t].built # "None"}) <= 1
    /\ \A t \in Threads :
          threads[t].vectorstore # "None" => threads[t].vectorstore = _vectorstore

\* C26: when agent.invoke is called, its user message is the planner's steps
\* in their order with a comma between two neighbours, and the four corners
\* of its system message are (0, 0), (width, 0), (0, height) and
\* (width, height) with the width and height of the request.
C26_AgentMessages ==
    [][ (pc = "agent" /\ Len(stages') > Len(stages)) =>
          LET m == stages'[Len(stages) + 1]
              st == all_steps.v.steps
              joined[n \in 0..Len(st)] ==
                  IF n = 0 THEN <<>> ELSE IF n = 1 THEN st[1]
                  ELSE joined[n - 1] \o <<",">> \o st[n]
              dim(key) == LET i == CHOOSE j \in DOMAIN page_dimensions.v :
                                        page_dimensions.v[j].k = key
                              x == page_dimensions.v[i].v
                          IN  IF x.t = "int" THEN int_str(x.v) ELSE x.v
              w == dim(K_width)
              h == dim(<<"height">>)
          IN  /\ m.fn = "agent.invoke" /\ m.ev = "call"
              /\ m.messages.user = joined[Len(st)]
              /\ m.messages.system.top_left = <<"(left=", "0", ", top=", "0", ")">>
              /\ m.messages.system.top_right = <<"(left=">> \o w \o <<", top=", "0", ")">>
              /\ m.messages.system.bottom_left = <<"(left=", "0", ", top=">> \o h \o <<")">>
              /\ m.messages.system.bottom_right =
                    <<"(left=">> \o w \o <<", top=">> \o h \o <<")">> ]_vars

C26_Witness ==
    \E i \in DOMAIN stages :
        /\ stages[i].fn = "agent.invoke" /\ stages[i].ev = "call"
        /\ stages[i].messages.user =
              <<"Add slide heading", ",", "Add image of an animal centered on the slide">>
        /\ stages[i].messages.system.bottom_right =
              <<"(left=", "8", "0", "0", ", top=", "6", "0", "0", ")">>

\* C27: a set _vectorstore comes with a set _embeddings; a similarity search
\* is only made with _vectorstore set; a handle_rag call that raised before
\* its search left _vectorstore unset.  A handle_rag call that finds
\* _vectorstore unset initialises again: it sets the handle and searches, or
\* it raises with the handle still unset; one that finds it set keeps it.
C27_FailedInitLeavesUnset ==
    /\ [](/\ _vectorstore # "None" => _embeddings # "None"
          /\ Called("similarity_search") => _vectorstore # "None"
          /\ (Raised("handle_rag") /\ ~Called("similarity_search")) => _vectorstore = "None")
    /\ [][ (pc = "handle_rag" /\ all_steps.t # "None") =>
             LET searched == \E i \in DOMAIN stages' : stages'[i].fn = "similarity_search"
             IN  IF _vectorstore = "None"
                 THEN \/ _vectorstore' # "None" /\ searched
                      \/ /\ _vectorstore' = "None"
                         /\ ~searched
                         /\ pc' = "except"
                         /\ exc'.type \in {"ValueError", "OpenAIError", "PineconeException"}
                 ELSE /\ _vectorstore' = _vectorstore
                      /\ _embeddings' = _embeddings
                      /\ searched ]_vars

C27_Witness ==
    /\ runs = 1
    /\ pc = "except"
    /\ exc.type = "PineconeException"
    /\ Raised("handle_rag")
    /\ ~Called("similarity_search")
    /\ _embeddings = "OpenAIEmbeddings"
    /\ _vectorstore = "None"

\* C28: when create_cards answers 400 or 500, no card of that request has
\* been saved: no Cards.objects.create of the request has returned.
C28_AllOrNothing ==
    (pc = "idle" /\ http.status \in {400, 500}) => ~Returned("Cards.objects.create")

====
